---- MODULE Spec2Model ----
(***************************************************************************)
(* Source-failover supervisor of twitch_fallback.                          *)
(*                                                                         *)
(* A StreamManager instance (stream_manager.py) is run by a worker thread   *)
(* that the Flask control layer (app.py) starts.  The model covers the     *)
(* life of the instance the control layer refers to: run(),                *)
(* monitor_stream(), stop(), the environment (the two FFmpeg processes may *)
(* exit at any time, the primary source comes and goes, a spawn may fail)  *)
(* and the /api/start, /api/stop and /api/status handlers of the control   *)
(* layer, which run on request threads.  Worker threads of instances the   *)
(* control layer has replaced while they were still running are counted.   *)
(* stream_manager.py run as a program of its own (no control layer, run()  *)
(* on the main thread, SIGINT/SIGTERM handled by _signal_handler) is the   *)
(* other way an instance comes to life.                                    *)
(*                                                                         *)
(* The methods of StreamManager are operators from the object's fields     *)
(* (the record World) to the fields after the call, together with whether  *)
(* the call raised.  The blocking points of the worker thread (probe,      *)
(* process start, sleep, stop) are the steps of its program counter.       *)
(***************************************************************************)
EXTENDS Integers, FiniteSets, Sequences, TLC

VARIABLES
    input_process,          \* StreamManager.input_process (handle or NoProc)
    relay_process,          \* StreamManager.relay_process (handle or NoProc)
    shutdown_event,         \* StreamManager.shutdown_event.is_set()
    is_rtmp_input_active,   \* StreamManager.is_rtmp_input_active (SourceState)
    leaked_input,           \* live Input processes no handle refers to any more
    leaked_relay,           \* live Relay processes no handle refers to any more
    pc,                     \* position of the worker thread in run()
    rtmp_available,         \* local rtmp_available of run() / monitor_stream()
    probed,                 \* rtmp_available was obtained by check_rtmp_stream()
    raised,                 \* run() ended by an exception
    stopped,                \* StreamManager.stop() has run to completion
    started,                \* roles whose process was spawned in this tick
    primary_up,             \* environment: the primary source is publishing
    stream_manager,         \* app.py global stream_manager is not None
    stream_thread,          \* app.py global stream_thread is not None
    app_pc,                 \* position of the request thread in stop_stream()
    stop_response,          \* last answer of /api/stop
    start_response,         \* last answer of /api/start
    status_response,        \* last answer of /api/status
    superseded,             \* live worker threads of instances replaced by a new one
    probe_outcome,          \* what the ffprobe run of the last probe did
    config,                 \* the keys of config.yml that shape the audio options
    input_command,          \* the last command build_input_command returned
    register_signals        \* the program is stream_manager.py, not app.py

vars == << input_process, relay_process, shutdown_event, is_rtmp_input_active,
           leaked_input, leaked_relay, pc, rtmp_available, probed, raised,
           stopped, started, primary_up, stream_manager, stream_thread, app_pc,
           stop_response, start_response, status_response, superseded,
           probe_outcome, config, input_command, register_signals >>

\* Cap of the counters of unreferenced live processes.
MaxLeaked == 2

\* Cap on the worker threads of replaced instances that are followed while
\* they are still running.
MaxSuperseded == 1

---------------------------------------------------------------------------
(* OS processes behind subprocess.Popen handles *)

\* self.input_process = None / self.relay_process = None
NoProc == [mode |-> FALSE, st |-> "none", stubborn |-> FALSE]

\* A process just spawned by Popen.  mode: started on the primary source
\* (Relay processes have no mode); stubborn: it ignores SIGTERM.
NewProc(mode, stubborn) == [mode |-> mode, st |-> "running", stubborn |-> stubborn]

ProcStates == {"none", "running", "crashed", "terminated", "killed"}

\* `if self.input_process:` - the handle is set
IsSet(p) == p.st # "none"

Alive(p) == p.st = "running"

\* `p.poll() is not None`
Exited(p) == p.st \in {"crashed", "terminated", "killed"}

\* p.terminate() alone (app.py): SIGTERM, no wait, no kill.  A process that
\* obeys exits; one that ignores the signal, or has exited, is unchanged.
Terminate(p) ==
    IF Alive(p) /\ ~p.stubborn THEN [p EXCEPT !.st = "terminated"] ELSE p

\* Faulty variant of TerminateWaitKill: the TimeoutExpired branch does not kill.
TerminateWaitNoKill(p) ==
    IF Alive(p) /\ ~p.stubborn THEN [p EXCEPT !.st = "terminated"] ELSE p

\* p.terminate(); try: p.wait(timeout) except TimeoutExpired: p.kill()
TerminateWaitKill(p) ==
    IF Alive(p)
    THEN [p EXCEPT !.st = IF p.stubborn THEN "killed" ELSE "terminated"]
    ELSE p

\* The count of unreferenced live processes after handle p is dropped.
Dropped(n, p) == IF Alive(p) /\ n < MaxLeaked THEN n + 1 ELSE n

---------------------------------------------------------------------------
(* The fields of the StreamManager object, and its methods *)

World ==
    [ input_process        |-> input_process,
      relay_process        |-> relay_process,
      shutdown_event       |-> shutdown_event,
      is_rtmp_input_active |-> is_rtmp_input_active,
      leaked_input         |-> leaked_input,
      leaked_relay         |-> leaked_relay ]

Returned(w) == [w |-> w, raised |-> FALSE]
Raised(w)   == [w |-> w, raised |-> TRUE]

\* Outcomes of the ffprobe run of check_rtmp_stream.  Exit code 0 needs a
\* publishing source.
ProbeOutcomes(up) ==
    (IF up THEN {"rc0"} ELSE {}) \cup {"nonzero", "timeout", "oserror"}

\* Faulty variant of check_rtmp_stream: the except clause is missing, so a
\* timeout or an invocation error of subprocess.run leaves the method as an
\* exception.
check_rtmp_stream_no_except(outcome) ==
    [value  |-> outcome = "rc0",
     raised |-> outcome \in {"timeout", "oserror"}]

\* StreamManager.check_rtmp_stream(): the whole body is inside
\* try/except Exception; subprocess.run either returns a result, whose
\* returncode is compared with 0, or raises (TimeoutExpired, OSError) and the
\* except clause returns False.
check_rtmp_stream(outcome) ==
    [value  |-> IF outcome \in {"timeout", "oserror"}
                THEN FALSE
                ELSE outcome = "rc0",
     raised |-> FALSE]

\* Faulty variant of initial_use_rtmp_input: run() starts on the primary
\* source whatever the probe said.
initial_use_rtmp_input_always(available) == TRUE

\* run(): "if rtmp_available: start_input_stream(use_rtmp_input=True) else:
\* start_input_stream(use_rtmp_input=False)".
initial_use_rtmp_input(available) == available

\* Faulty variant of should_probe: every tick probes.
should_probe_always(w) == TRUE

\* monitor_stream(): "if not self.is_rtmp_input_active:" guards the probe of
\* the tick.
should_probe(w) == ~w.is_rtmp_input_active

\* The answer of /api/status before the first request.
NoStatus == [running |-> FALSE, source |-> "unasked", raised |-> FALSE,
             probed |-> FALSE]

---------------------------------------------------------------------------
(* Configuration *)

\* required = [...] of _load_config
required == {"rtmp_input_url", "twitch_rtmp_url", "twitch_stream_key"}

\* A parsed config.yml that holds the keys of the set keys.
ConfigFile(keys) == [k \in keys |-> "set"]

\* dict.setdefault(key, value)
setdefault(c, key, value) ==
    IF key \in DOMAIN c THEN c ELSE c @@ (key :> value)

\* The defaults _load_config sets for the keys the model follows.
WithDefaults(c) ==
    setdefault(setdefault(setdefault(setdefault(setdefault(c,
        "fallback_type", "image"),
        "audio_bitrate", "160k"),
        "multi_audio_enabled", FALSE),
        "audio_tracks", 1),
        "audio_sources", << >>)

\* Faulty variant of _load_config: the loop over the required keys is missing.
_load_config_unvalidated(file) ==
    [value |-> WithDefaults(file), raised |-> FALSE]

\* StreamManager._load_config(config_path): ValueError when a required key is
\* not in the file, else the file's content with the defaults set.
_load_config(file) ==
    IF \E key \in required : key \notin DOMAIN file
    THEN [value |-> file, raised |-> TRUE]
    ELSE [value |-> WithDefaults(file), raised |-> FALSE]

\* The contents config.yml can have when start_stream() constructs a
\* StreamManager: any of the required keys may be missing.
ConfigFiles == { ConfigFile(keys) : keys \in SUBSET required }

\* Faulty variant of start_input_stream: SourceState is not written after the spawn.
start_input_stream_keeps_state(w, use_rtmp_input, spawn_ok, stubborn) ==
    LET old == IF IsSet(w.input_process)
               THEN TerminateWaitKill(w.input_process)
               ELSE w.input_process
    IN  IF spawn_ok
        THEN Returned([w EXCEPT
                 !.input_process = NewProc(use_rtmp_input, stubborn),
                 !.leaked_input  = Dropped(@, old)])
        ELSE Raised([w EXCEPT !.input_process = old])

\* Faulty variant of start_input_stream: the Relay process is stopped and its
\* handle reset together with the Input process.
start_input_stream_stops_relay(w, use_rtmp_input, spawn_ok, stubborn) ==
    LET old == IF IsSet(w.input_process)
               THEN TerminateWaitKill(w.input_process)
               ELSE w.input_process
        relay == IF IsSet(w.relay_process)
                 THEN TerminateWaitKill(w.relay_process)
                 ELSE w.relay_process
    IN  IF spawn_ok
        THEN Returned([w EXCEPT
                 !.input_process        = NewProc(use_rtmp_input, stubborn),
                 !.leaked_input         = Dropped(@, old),
                 !.relay_process        = relay,
                 !.is_rtmp_input_active = use_rtmp_input])
        ELSE Raised([w EXCEPT !.input_process = old, !.relay_process = relay])

\* StreamManager.start_input_stream(use_rtmp_input): stop the current Input
\* process if a handle is set, spawn the new one, replace the handle and write
\* SourceState.  When Popen raises, the handle and SourceState are as before.
start_input_stream(w, use_rtmp_input, spawn_ok, stubborn) ==
    LET old == IF IsSet(w.input_process)
               THEN TerminateWaitKill(w.input_process)
               ELSE w.input_process
    IN  IF spawn_ok
        THEN Returned([w EXCEPT
                 !.input_process        = NewProc(use_rtmp_input, stubborn),
                 !.leaked_input         = Dropped(@, old),
                 !.is_rtmp_input_active = use_rtmp_input])
        ELSE Raised([w EXCEPT !.input_process = old])

\* StreamManager.start_relay_stream(): nothing when a handle is set.
start_relay_stream(w, spawn_ok, stubborn) ==
    IF IsSet(w.relay_process)
    THEN Returned(w)
    ELSE IF spawn_ok
         THEN Returned([w EXCEPT !.relay_process = NewProc(FALSE, stubborn)])
         ELSE Raised(w)

\* Faulty variant of monitor_switch: the test `not self.is_rtmp_input_active` is lost.
monitor_switch_always(w, available, spawn_ok, stubborn) ==
    IF available
    THEN start_input_stream(w, TRUE, spawn_ok, stubborn)
    ELSE Returned(w)

\* monitor_stream, "Switch to RTMP input if available and not active".
monitor_switch(w, available, spawn_ok, stubborn) ==
    IF available /\ ~w.is_rtmp_input_active
    THEN start_input_stream(w, TRUE, spawn_ok, stubborn)
    ELSE Returned(w)

\* Faulty variant of monitor_input: the crash restart is always in primary
\* mode.
monitor_input_restarts_primary(w, available, spawn_ok, stubborn) ==
    IF IsSet(w.input_process) /\ Exited(w.input_process)
    THEN start_input_stream(w, TRUE, spawn_ok, stubborn)
    ELSE Returned(w)

\* monitor_stream, "Check if input process is still running".
monitor_input(w, available, spawn_ok, stubborn) ==
    IF IsSet(w.input_process) /\ Exited(w.input_process)
    THEN start_input_stream(w, available, spawn_ok, stubborn)
    ELSE Returned(w)

\* Faulty variant of monitor_relay: the handle is not reset before the restart.
monitor_relay_keeps_handle(w, spawn_ok, stubborn) ==
    IF IsSet(w.relay_process) /\ Exited(w.relay_process)
    THEN start_relay_stream(w, spawn_ok, stubborn)
    ELSE Returned(w)

\* monitor_stream, "Check if relay process is still running (critical!)".
monitor_relay(w, spawn_ok, stubborn) ==
    IF IsSet(w.relay_process) /\ Exited(w.relay_process)
    THEN start_relay_stream(
             [w EXCEPT !.relay_process = NoProc,
                       !.leaked_relay  = Dropped(@, w.relay_process)],
             spawn_ok, stubborn)
    ELSE Returned(w)

\* Faulty variant of stop: SourceState is reset on shutdown.
stop_resets_source(w) ==
    Returned([w EXCEPT
        !.shutdown_event = TRUE,
        !.is_rtmp_input_active = FALSE,
        !.input_process = IF IsSet(@) THEN TerminateWaitKill(@) ELSE @,
        !.relay_process = IF IsSet(@) THEN TerminateWaitKill(@) ELSE @])

\* Faulty variant of stop: SIGTERM only, no kill after the grace wait.
stop_no_kill(w) ==
    Returned([w EXCEPT
        !.shutdown_event = TRUE,
        !.input_process = IF IsSet(@) THEN Terminate(@) ELSE @,
        !.relay_process = IF IsSet(@) THEN Terminate(@) ELSE @])

\* Faulty variant of stop: the `if self.input_process:` / `if self.relay_process:`
\* tests are lost, so terminate() is called on None.
stop_unguarded(w) ==
    [ w |-> [w EXCEPT
               !.shutdown_event = TRUE,
               !.input_process = IF IsSet(@) THEN TerminateWaitKill(@) ELSE @,
               !.relay_process = IF IsSet(@) THEN TerminateWaitKill(@) ELSE @],
      raised |-> ~IsSet(w.input_process) \/ ~IsSet(w.relay_process) ]

\* StreamManager.stop(): set the event; for each handle that is set,
\* terminate, wait, kill on timeout.  terminate() and wait() on a process
\* that has exited do nothing, so no branch raises.
stop(w) ==
    Returned([w EXCEPT
        !.shutdown_event = TRUE,
        !.input_process = IF IsSet(@) THEN TerminateWaitKill(@) ELSE @,
        !.relay_process = IF IsSet(@) THEN TerminateWaitKill(@) ELSE @])

\* StreamManager._signal_handler(signum, frame) up to its sys.exit(0): set
\* the event; for each handle that is set, terminate, wait, kill on timeout.
_signal_handler(w) ==
    Returned([w EXCEPT
        !.shutdown_event = TRUE,
        !.input_process = IF IsSet(@) THEN TerminateWaitKill(@) ELSE @,
        !.relay_process = IF IsSet(@) THEN TerminateWaitKill(@) ELSE @])

\* The roles a call has spawned a process for are added to the tick's record:
\* the handle is another one than before the call, and is running.
Started(w) ==
    started' = started
        \cup (IF Alive(w.input_process) /\ w.input_process # input_process
              THEN {"input"} ELSE {})
        \cup (IF Alive(w.relay_process) /\ w.relay_process # relay_process
              THEN {"relay"} ELSE {})

\* The fields of the object after a call.
Becomes(w) ==
    /\ input_process'        = w.input_process
    /\ relay_process'        = w.relay_process
    /\ shutdown_event'       = w.shutdown_event
    /\ is_rtmp_input_active' = w.is_rtmp_input_active
    /\ leaked_input'         = w.leaked_input
    /\ leaked_relay'         = w.leaked_relay

objectVars == << input_process, relay_process, shutdown_event,
                 is_rtmp_input_active, leaked_input, leaked_relay >>
threadVars == << pc, rtmp_available, probed, raised, stopped, started,
                 probe_outcome >>
appVars    == << stream_manager, stream_thread, app_pc, stop_response,
                 start_response, status_response, superseded >>
audioVars  == << config, input_command >>
programVars == << register_signals >>

---------------------------------------------------------------------------
(* The FFmpeg command of the Input process *)

\* "Twitch supports max 3 tracks": the second argument of min() in
\* _build_audio_encoding_options and build_input_command.
MaxAudioTracks == 3

\* Python's min(a, b) on integers
min(a, b) == IF a <= b THEN a ELSE b

\* Python's range(n) as the sequence 0, 1, ..., n-1; empty when n <= 0.
range(n) == [i \in 1..n |-> i - 1]

\* str(i) for the track indices that can occur
str(i) == CASE i = 0 -> "0" [] i = 1 -> "1" [] i = 2 -> "2"

\* list.extend over a sequence of lists
RECURSIVE Flatten(_)
Flatten(lists) ==
    IF lists = << >> THEN << >> ELSE Head(lists) \o Flatten(Tail(lists))

\* StreamManager._build_audio_encoding_options(): with multi_audio_enabled
\* one group of options per track index of range(min(audio_tracks, 3)), else
\* the options of a single track.
_build_audio_encoding_options(c) ==
    IF c.multi_audio_enabled
    THEN LET num_tracks == min(c.audio_tracks, MaxAudioTracks)
             tracks     == range(num_tracks)
         IN  Flatten([n \in DOMAIN tracks |->
                        << "-map", "0:a:" \o str(tracks[n]) \o "?",
                           "-c:a:" \o str(tracks[n]), "aac",
                           "-b:a:" \o str(tracks[n]), c.audio_bitrate,
                           "-ar:" \o str(tracks[n]), "44100",
                           "-ac:" \o str(tracks[n]), "2" >>])
    ELSE << "-c:a", "aac", "-b:a", c.audio_bitrate, "-ar", "44100",
            "-ac", "2" >>

\* The video encoding options, the same in the three branches
VideoEncoding ==
    << "-c:v", "libx264", "-preset", "veryfast", "-pix_fmt", "yuv420p" >>

\* One silent audio input of the fallback image
SilentInput ==
    << "-f", "lavfi", "-i", "anullsrc=channel_layout=stereo:sample_rate=44100" >>

\* StreamManager.build_input_command(use_rtmp_input): the command that reads
\* the primary source, the fallback image or the fallback video.
build_input_command(c, use_rtmp_input) ==
    IF use_rtmp_input
    THEN << "ffmpeg", "-i", "rtmp_input_url/obs" >>
         \o Flatten([n \in DOMAIN c.audio_sources |->
                        << "-i", c.audio_sources[n] >>])
         \o VideoEncoding
         \o _build_audio_encoding_options(c)
         \o << "-f", "flv", "local_rtmp" >>
    ELSE IF c.fallback_type = "image"
    THEN << "ffmpeg", "-loop", "1", "-i", "fallback_image" >>
         \o (IF c.multi_audio_enabled
             THEN LET num_tracks == min(c.audio_tracks, MaxAudioTracks)
                  IN  Flatten([n \in DOMAIN range(num_tracks) |-> SilentInput])
             ELSE SilentInput)
         \o VideoEncoding
         \o _build_audio_encoding_options(c)
         \o << "-shortest" >>
         \o << "-f", "flv", "local_rtmp" >>
    ELSE << "ffmpeg", "-stream_loop", "-1", "-re", "-i", "fallback_video" >>
         \o VideoEncoding
         \o _build_audio_encoding_options(c)
         \o << "-f", "flv", "local_rtmp" >>

\* The audio tracks a command encodes: one per audio codec option.
AudioTracks(cmd) ==
    Cardinality({ i \in DOMAIN cmd :
                    cmd[i] \in {"-c:a", "-c:a:0", "-c:a:1", "-c:a:2"} })

\* Largest audio_tracks value and largest magnitude of a negative one that
\* a configuration file holds here.
MaxTracks == 5
MaxNegTracks == 2

\* The contents of a complete config.yml as far as the command follows them.
AudioConfigFiles ==
    { ConfigFile(required) @@ f :
        f \in [ multi_audio_enabled : BOOLEAN,
                audio_tracks        : (0 - MaxNegTracks)..MaxTracks,
                fallback_type       : {"image", "video"},
                audio_sources       : {<< >>, << "audio_source" >>} ] }

---------------------------------------------------------------------------
(* Init: the control layer is up, its globals stream_manager and           *)
(* stream_thread are None and no StreamManager has been constructed.       *)

Init ==
    /\ input_process = NoProc
    /\ relay_process = NoProc
    /\ shutdown_event = FALSE
    /\ is_rtmp_input_active = FALSE
    /\ leaked_input = 0
    /\ leaked_relay = 0
    /\ pc = "none"
    /\ rtmp_available = FALSE
    /\ probed = FALSE
    /\ raised = FALSE
    /\ stopped = FALSE
    /\ started = {}
    /\ probe_outcome = "none"
    /\ primary_up \in BOOLEAN
    /\ stream_manager = FALSE
    /\ stream_thread = FALSE
    /\ app_pc = "idle"
    /\ stop_response = "none"
    /\ start_response = "none"
    /\ status_response = NoStatus
    /\ superseded = 0
    /\ config = ConfigFile({})
    /\ input_command = << >>
    /\ register_signals \in BOOLEAN

---------------------------------------------------------------------------
(* The worker thread: StreamManager.run() *)

\* run(): rtmp_available = self.check_rtmp_stream()
RunProbe ==
    /\ pc = "run_probe"
    /\ \E outcome \in ProbeOutcomes(primary_up) :
         LET r == check_rtmp_stream(outcome)
         IN  /\ probe_outcome' = outcome
             /\ rtmp_available' = r.value
             /\ raised' = r.raised
             /\ pc' = IF r.raised THEN "done" ELSE "run_input"
    /\ probed' = TRUE
    /\ UNCHANGED << programVars, audioVars, objectVars, stopped, started, primary_up, appVars >>

\* run(): start_input_stream(use_rtmp_input = rtmp_available).  The call is
\* outside the try block: an exception ends run() without stop().
RunStartInput ==
    /\ pc = "run_input"
    /\ \E spawn_ok \in BOOLEAN, stubborn \in BOOLEAN :
         LET r == start_input_stream(World, initial_use_rtmp_input(rtmp_available),
                                     spawn_ok, stubborn)
         IN  /\ Becomes(r.w)
             /\ Started(r.w)
             /\ raised' = r.raised
             /\ pc' = IF r.raised THEN "done" ELSE "run_relay"
    /\ UNCHANGED << programVars, audioVars, rtmp_available, probed, probe_outcome, stopped,
                    primary_up, appVars >>

\* run(): self.start_relay_stream(), outside the try block as well.
RunStartRelay ==
    /\ pc = "run_relay"
    /\ \E spawn_ok \in BOOLEAN, stubborn \in BOOLEAN :
         LET r == start_relay_stream(World, spawn_ok, stubborn)
         IN  /\ Becomes(r.w)
             /\ Started(r.w)
             /\ raised' = r.raised
             /\ pc' = IF r.raised THEN "done" ELSE "loop"
    /\ UNCHANGED << programVars, audioVars, rtmp_available, probed, probe_outcome, stopped,
                    primary_up, appVars >>

\* monitor_stream(): while not self.shutdown_event.is_set().  A tick begins
\* here, with nothing started in it yet.
MonitorLoop ==
    /\ pc = "loop"
    /\ pc' = IF shutdown_event THEN "stop" ELSE "probe"
    /\ started' = {}
    /\ UNCHANGED << programVars, audioVars, objectVars, rtmp_available, probed, probe_outcome,
                    raised, stopped, primary_up, appVars >>

\* monitor_stream(): the probe is run only when SourceState is Fallback;
\* otherwise the source is assumed available.
MonitorProbe ==
    /\ pc = "probe"
    /\ IF should_probe(World)
       THEN \E outcome \in ProbeOutcomes(primary_up) :
              LET r == check_rtmp_stream(outcome)
              IN  /\ probe_outcome' = outcome
                  /\ rtmp_available' = r.value
                  /\ probed' = TRUE
                  /\ raised' = r.raised
                  /\ pc' = IF r.raised THEN "stop" ELSE "switch"
       ELSE /\ rtmp_available' = TRUE
            /\ probed' = FALSE
            /\ probe_outcome' = "none"
            /\ pc' = "switch"
            /\ UNCHANGED raised
    /\ UNCHANGED << programVars, audioVars, objectVars, stopped, started, primary_up, appVars >>

\* Faulty variant of AfterTickStep: run() has no finally clause, an exception
\* of monitor_stream() ends the thread at once.
AfterTickStep_no_finally(r, next) ==
    /\ Becomes(r.w)
    /\ Started(r.w)
    /\ raised' = r.raised
    /\ pc' = IF r.raised THEN "done" ELSE next

\* An exception inside monitor_stream() reaches the try block of run():
\* it is logged and re-raised, and the finally clause runs stop().
AfterTickStep(r, next) ==
    /\ Becomes(r.w)
    /\ Started(r.w)
    /\ raised' = r.raised
    /\ pc' = IF r.raised THEN "stop" ELSE next

MonitorSwitch ==
    /\ pc = "switch"
    /\ \E spawn_ok \in BOOLEAN, stubborn \in BOOLEAN :
         AfterTickStep(monitor_switch(World, rtmp_available, spawn_ok, stubborn),
                       "poll_input")
    /\ UNCHANGED << programVars, audioVars, rtmp_available, probed, probe_outcome, stopped,
                    primary_up, appVars >>

MonitorPollInput ==
    /\ pc = "poll_input"
    /\ \E spawn_ok \in BOOLEAN, stubborn \in BOOLEAN :
         AfterTickStep(monitor_input(World, rtmp_available, spawn_ok, stubborn),
                       "poll_relay")
    /\ UNCHANGED << programVars, audioVars, rtmp_available, probed, probe_outcome, stopped,
                    primary_up, appVars >>

MonitorPollRelay ==
    /\ pc = "poll_relay"
    /\ \E spawn_ok \in BOOLEAN, stubborn \in BOOLEAN :
         AfterTickStep(monitor_relay(World, spawn_ok, stubborn), "sleep")
    /\ UNCHANGED << programVars, audioVars, rtmp_available, probed, probe_outcome, stopped,
                    primary_up, appVars >>

\* monitor_stream(): time.sleep(check_interval); the tick's local is dead.
MonitorSleep ==
    /\ pc = "sleep"
    /\ pc' = "loop"
    /\ rtmp_available' = FALSE
    /\ probed' = FALSE
    /\ started' = {}
    /\ probe_outcome' = "none"
    /\ UNCHANGED << programVars, audioVars, objectVars, raised, stopped, primary_up, appVars >>

\* run(): finally: self.stop(); then the thread ends.
RunStop ==
    /\ pc = "stop"
    /\ Becomes(stop(World).w)
    /\ stopped' = TRUE
    /\ pc' = "done"
    /\ rtmp_available' = FALSE
    /\ probed' = FALSE
    /\ started' = {}
    /\ probe_outcome' = "none"
    /\ UNCHANGED << programVars, audioVars, raised, primary_up, appVars >>

Worker ==
    \/ RunProbe \/ RunStartInput \/ RunStartRelay
    \/ MonitorLoop \/ MonitorProbe \/ MonitorSwitch
    \/ MonitorPollInput \/ MonitorPollRelay \/ MonitorSleep
    \/ RunStop

\* threading.Thread.is_alive() of the worker thread of the instance the
\* globals refer to: run() has been entered and has not ended.
is_alive == pc \notin {"none", "done"}

---------------------------------------------------------------------------
(* stream_manager.py as the program: the __main__ block and the signals    *)

\* manager = StreamManager(register_signals=True); manager.run() for one
\* content of config.yml.  An exception of the constructor is logged and
\* the program exits.
MainWith(file) ==
    /\ register_signals
    /\ pc = "none"
    /\ LET c == _load_config(file)
       IN  IF c.raised
           THEN /\ pc' = "done"
                /\ raised' = TRUE
                /\ UNCHANGED config
           ELSE /\ pc' = "run_probe"
                /\ config' = c.value
                /\ UNCHANGED raised
    /\ UNCHANGED << programVars, input_command, objectVars, rtmp_available,
                    probed, stopped, started, probe_outcome, primary_up,
                    appVars >>

Main == \E file \in ConfigFiles : MainWith(file)

\* SIGINT or SIGTERM arrives while run() is executing on the main thread:
\* _signal_handler runs there, between two steps of run(), and its
\* sys.exit(0) raises SystemExit at that point of run().  Inside the try
\* block of run() the finally clause then runs stop(); before the try block
\* and inside stop() the exception ends run().
SignalHandler ==
    /\ register_signals
    /\ is_alive
    /\ Becomes(_signal_handler(World).w)
    /\ raised' = TRUE
    /\ pc' = IF pc \in {"loop", "probe", "switch", "poll_input", "poll_relay",
                        "sleep"}
             THEN "stop" ELSE "done"
    /\ UNCHANGED << programVars, audioVars, rtmp_available, probed, stopped,
                    started, probe_outcome, primary_up, appVars >>

Program == Main \/ SignalHandler

---------------------------------------------------------------------------
(* The control layer: start_stream(), stop_stream() and                    *)
(* get_stream_status() of app.py, on request threads                       *)

\* The attributes and methods a StreamManager object has.
StreamManagerAttributes ==
    { "config", "input_process", "relay_process", "shutdown_event",
      "is_rtmp_input_active", "local_rtmp", "check_rtmp_stream",
      "build_input_command", "build_relay_command", "start_input_stream",
      "start_relay_stream", "monitor_stream", "stop", "run" }

\* get_stream_status(): not running when a global is None or the thread is
\* not alive; else a dictionary built from stream_manager.is_rtsp_active and
\* stream_manager.check_rtsp_stream(), in this order.  Reading an attribute
\* the object does not have raises AttributeError.
get_stream_status(manager, thread, alive, w) ==
    IF ~manager \/ ~thread \/ ~alive
    THEN [running |-> FALSE, source |-> "none", raised |-> FALSE,
          probed |-> FALSE]
    ELSE IF "is_rtsp_active" \notin StreamManagerAttributes
    THEN [running |-> FALSE, source |-> "none", raised |-> TRUE,
          probed |-> FALSE]
    ELSE IF "check_rtsp_stream" \notin StreamManagerAttributes
    THEN [running |-> FALSE, source |-> "none", raised |-> TRUE,
          probed |-> FALSE]
    ELSE [running |-> TRUE,
          source  |-> IF w.is_rtmp_input_active THEN "rtsp" ELSE "fallback",
          raised  |-> FALSE,
          probed  |-> TRUE]

\* /api/status: get_stream_status() on a request thread; it changes nothing.
GetStreamStatus ==
    /\ ~register_signals
    /\ status_response' =
           get_stream_status(stream_manager, stream_thread, is_alive, World)
    /\ UNCHANGED << programVars, audioVars, objectVars, threadVars, primary_up, stream_manager,
                    stream_thread, app_pc, stop_response, start_response,
                    superseded >>

\* start_stream() for one content of config.yml.
\*   - "if stream_thread and stream_thread.is_alive()": 400;
\*   - StreamManager(CONFIG_FILE) raises: caught, 500 with the message, the
\*     globals keep their values and no thread is started;
\*   - else the globals refer to the new instance and its thread, which
\*     starts in run().  A thread of the replaced instance that is still
\*     running goes on running and is counted in superseded.
StartStreamWith(file) ==
    /\ ~register_signals
    /\ app_pc = "idle"
    /\ stop_response' = "none"
    /\ status_response' = NoStatus
    /\ IF stream_thread /\ is_alive
       THEN /\ start_response' = "rejected"
            /\ UNCHANGED << programVars, audioVars, objectVars, threadVars, stream_manager,
                            stream_thread, superseded >>
       ELSE LET c == _load_config(file)
            IN  IF c.raised
                THEN /\ start_response' = "error"
                     /\ UNCHANGED << programVars, audioVars, objectVars, threadVars,
                                     stream_manager, stream_thread, superseded >>
                ELSE /\ is_alive => superseded < MaxSuperseded
                     /\ superseded' = IF is_alive THEN superseded + 1
                                                  ELSE superseded
                     /\ config' = c.value
                     /\ input_process' = NoProc
                     /\ relay_process' = NoProc
                     /\ shutdown_event' = FALSE
                     /\ is_rtmp_input_active' = FALSE
                     /\ leaked_input' = 0
                     /\ leaked_relay' = 0
                     /\ pc' = "run_probe"
                     /\ rtmp_available' = FALSE
                     /\ probed' = FALSE
                     /\ raised' = FALSE
                     /\ stopped' = FALSE
                     /\ started' = {}
                     /\ probe_outcome' = "none"
                     /\ stream_manager' = TRUE
                     /\ stream_thread' = TRUE
                     /\ start_response' = "success"
                     /\ UNCHANGED input_command
    /\ UNCHANGED << primary_up, app_pc, programVars >>

StartStream == \E file \in ConfigFiles : StartStreamWith(file)

\* stop_stream(): both globals set; stream_manager.shutdown_event.set()
StopStreamBegin ==
    /\ ~register_signals
    /\ app_pc = "idle"
    /\ stream_manager /\ stream_thread
    /\ shutdown_event' = TRUE
    /\ app_pc' = "terminate_input"
    /\ stop_response' = "none"
    /\ start_response' = "none"
    /\ status_response' = NoStatus
    /\ UNCHANGED << programVars, audioVars, input_process, relay_process, is_rtmp_input_active,
                    leaked_input, leaked_relay, threadVars, primary_up,
                    stream_manager, stream_thread, superseded >>

\* stop_stream(): if stream_manager.input_process: ...terminate()
StopStreamTerminateInput ==
    /\ app_pc = "terminate_input"
    /\ input_process' = IF IsSet(input_process)
                        THEN Terminate(input_process) ELSE input_process
    /\ app_pc' = "terminate_relay"
    /\ UNCHANGED << programVars, audioVars, relay_process, shutdown_event, is_rtmp_input_active,
                    leaked_input, leaked_relay, threadVars, primary_up,
                    stream_manager, stream_thread, stop_response,
                    start_response, status_response, superseded >>

\* stop_stream(): if stream_manager.relay_process: ...terminate()
StopStreamTerminateRelay ==
    /\ app_pc = "terminate_relay"
    /\ relay_process' = IF IsSet(relay_process)
                        THEN Terminate(relay_process) ELSE relay_process
    /\ app_pc' = "join"
    /\ UNCHANGED << programVars, audioVars, input_process, shutdown_event, is_rtmp_input_active,
                    leaked_input, leaked_relay, threadVars, primary_up,
                    stream_manager, stream_thread, stop_response,
                    start_response, status_response, superseded >>

\* stop_stream(): stream_thread.join(timeout=5) returns when the thread has
\* ended or when the timeout has passed, and its result is not looked at;
\* the globals are cleared and success is answered.
StopStreamJoin ==
    /\ app_pc = "join"
    /\ stream_manager' = FALSE
    /\ stream_thread' = FALSE
    /\ stop_response' = "success"
    /\ app_pc' = "idle"
    /\ UNCHANGED << programVars, audioVars, objectVars, threadVars, primary_up, start_response,
                    status_response, superseded >>

\* stop_stream(): a global is None: 400, 'Kein Stream aktiv'
StopStreamRejected ==
    /\ ~register_signals
    /\ app_pc = "idle"
    /\ ~stream_manager \/ ~stream_thread
    /\ stop_response' = "rejected"
    /\ start_response' = "none"
    /\ status_response' = NoStatus
    /\ UNCHANGED << programVars, audioVars, objectVars, threadVars, primary_up, stream_manager,
                    stream_thread, app_pc, superseded >>

Control ==
    \/ StartStream \/ GetStreamStatus
    \/ StopStreamBegin \/ StopStreamTerminateInput \/ StopStreamTerminateRelay
    \/ StopStreamJoin \/ StopStreamRejected

---------------------------------------------------------------------------
(* The environment *)

\* The Input FFmpeg process exits by itself (source lost, encoder error).
InputExits ==
    /\ Alive(input_process)
    /\ input_process' = [input_process EXCEPT !.st = "crashed"]
    /\ UNCHANGED << programVars, audioVars, relay_process, shutdown_event, is_rtmp_input_active,
                    leaked_input, leaked_relay, threadVars, primary_up, appVars >>

\* The Relay FFmpeg process exits by itself.
RelayExits ==
    /\ Alive(relay_process)
    /\ relay_process' = [relay_process EXCEPT !.st = "crashed"]
    /\ UNCHANGED << programVars, audioVars, input_process, shutdown_event, is_rtmp_input_active,
                    leaked_input, leaked_relay, threadVars, primary_up, appVars >>

\* The primary source starts or stops publishing.
PrimaryChanges ==
    /\ primary_up' = ~primary_up
    /\ UNCHANGED << programVars, audioVars, objectVars, threadVars, appVars >>

\* The worker thread of a replaced instance comes to its end.
SupersededEnds ==
    /\ superseded > 0
    /\ superseded' = superseded - 1
    /\ UNCHANGED << programVars, audioVars, objectVars, threadVars, primary_up, stream_manager,
                    stream_thread, app_pc, stop_response, start_response,
                    status_response >>

Environment == InputExits \/ RelayExits \/ PrimaryChanges \/ SupersededEnds

\* An Input process reading the primary source exits once the source is gone.
PrimaryInputDies ==
    /\ ~primary_up
    /\ input_process.mode
    /\ InputExits

---------------------------------------------------------------------------
Next == Worker \/ Program \/ Control \/ Environment

Spec == Init /\ [][Next]_vars

\* The worker thread is scheduled as long as it can run, and an Input process
\* on a source that is gone does exit.
LiveSpec == Init /\ [][Next]_vars /\ WF_vars(Worker) /\ WF_vars(PrimaryInputDies)

\* The state before any request, with a loaded configuration: the command
\* builder is applied to every configuration of AudioConfigFiles.
AudioInit ==
    /\ input_process = NoProc
    /\ relay_process = NoProc
    /\ shutdown_event = FALSE
    /\ is_rtmp_input_active = FALSE
    /\ leaked_input = 0
    /\ leaked_relay = 0
    /\ pc = "none"
    /\ rtmp_available = FALSE
    /\ probed = FALSE
    /\ raised = FALSE
    /\ stopped = FALSE
    /\ started = {}
    /\ probe_outcome = "none"
    /\ primary_up = FALSE
    /\ stream_manager = FALSE
    /\ stream_thread = FALSE
    /\ app_pc = "idle"
    /\ stop_response = "none"
    /\ start_response = "none"
    /\ status_response = NoStatus
    /\ superseded = 0
    /\ \E file \in AudioConfigFiles : config = _load_config(file).value
    /\ input_command = << >>
    /\ register_signals = FALSE

\* cmd = self.build_input_command(use_rtmp_input) of start_input_stream
BuildInputCommand ==
    /\ \E use_rtmp_input \in BOOLEAN :
         input_command' = build_input_command(config, use_rtmp_input)
    /\ UNCHANGED << objectVars, threadVars, appVars, primary_up, config,
                    programVars >>

AudioNext == BuildInputCommand

AudioSpec == AudioInit /\ [][AudioNext]_vars

TypeOK ==
    /\ input_process \in [mode : BOOLEAN, st : ProcStates, stubborn : BOOLEAN]
    /\ relay_process \in [mode : {FALSE}, st : ProcStates, stubborn : BOOLEAN]
    /\ shutdown_event \in BOOLEAN
    /\ is_rtmp_input_active \in BOOLEAN
    /\ leaked_input \in 0..MaxLeaked
    /\ leaked_relay \in 0..MaxLeaked
    /\ pc \in {"none", "run_probe", "run_input", "run_relay", "loop", "probe", "switch",
               "poll_input", "poll_relay", "sleep", "stop", "done"}
    /\ rtmp_available \in BOOLEAN
    /\ probed \in BOOLEAN
    /\ raised \in BOOLEAN
    /\ stopped \in BOOLEAN
    /\ started \subseteq {"input", "relay"}
    /\ primary_up \in BOOLEAN
    /\ stream_manager \in BOOLEAN
    /\ stream_thread \in BOOLEAN
    /\ start_response \in {"none", "rejected", "error", "success"}
    /\ status_response \in [running : BOOLEAN, raised : BOOLEAN,
                             probed : BOOLEAN,
                             source : {"unasked", "none", "rtsp", "fallback"}]
    /\ superseded \in 0..MaxSuperseded
    /\ probe_outcome \in {"none", "rc0", "nonzero", "timeout", "oserror"}
    /\ "audio_tracks" \in DOMAIN config => config.audio_tracks \in Int
    /\ input_command \in Seq(STRING)
    /\ register_signals \in BOOLEAN
    /\ app_pc \in {"idle", "terminate_input", "terminate_relay", "join"}
    /\ stop_response \in {"none", "success", "rejected"}

---------------------------------------------------------------------------
(* Claims *)

NoLiveProcess ==
    /\ ~Alive(input_process) /\ ~Alive(relay_process)
    /\ leaked_input = 0 /\ leaked_relay = 0

\* C1 (as claimed): whenever the poll of a tick finds the Input process
\* exited while SourceState is Primary, the restart mode comes from a probe
\* that was run in that tick.
C1_ReprobeBeforeCrashRestart ==
    [][ (MonitorPollInput /\ is_rtmp_input_active /\ Exited(input_process))
            => probed ]_vars

\* C2 (as claimed): if from some point on the primary source is gone (every
\* probe fails, every Input process on it exits), no spawn fails and nobody
\* stops the supervisor, then SourceState = Fallback with an Input process
\* started in fallback mode is eventually reached.
FailoverHypothesis ==
    ~primary_up /\ ~shutdown_event /\ ~raised /\ pc \notin {"none", "done"}

InFallback ==
    ~is_rtmp_input_active /\ IsSet(input_process) /\ ~input_process.mode

C2_FailoverLiveness == []( ([]FailoverHypothesis) => <>InFallback )

\* C3: SourceState goes from Primary to Fallback only in the step of a tick
\* that polls the Input process and finds it exited; in particular no probe
\* result and no other operation makes that change.  (The fields of a newly
\* constructed instance are not a change of the SourceState of the old one.)
C3_FallbackOnlyOnInputCrash ==
    [][ (is_rtmp_input_active /\ ~is_rtmp_input_active' /\ ~StartStream)
            => (pc = "poll_input" /\ IsSet(input_process) /\ Exited(input_process)) ]_vars

\* A tick that began with SourceState = Primary has passed the Input poll
\* with the source gone and the Input process running: SourceState is kept.
C3_Witness ==
    /\ pc = "poll_relay" /\ ~probed /\ ~primary_up
    /\ is_rtmp_input_active /\ Alive(input_process) /\ started = {}

\* C4: SourceState goes from Fallback to Primary only by the switch step of a
\* tick (or the first start of run()) whose probe was run and succeeded, and
\* the switch step never replaces a running Input process that was started
\* in primary mode.
C4_PrimaryOnlyAfterProbe ==
    [][ /\ (~is_rtmp_input_active /\ is_rtmp_input_active')
            => (pc \in {"run_input", "switch"} /\ probed /\ rtmp_available)
        /\ (MonitorSwitch /\ input_process' # input_process)
            => ~(Alive(input_process) /\ input_process.mode) ]_vars

\* The switch step of this tick has moved a running supervisor to Primary.
C4_Witness ==
    /\ pc = "poll_input" /\ probed /\ rtmp_available
    /\ is_rtmp_input_active /\ "input" \in started
    /\ Alive(input_process) /\ input_process.mode

\* C5: at most one live process per role, in every reachable state.
LiveCount(p, leaked) == (IF Alive(p) THEN 1 ELSE 0) + leaked

C6_SourceStateMatchesInput ==
    [][ /\ Alive(input_process') => input_process'.mode = is_rtmp_input_active'
        /\ (is_rtmp_input_active' # is_rtmp_input_active /\ ~StartStream)
            => /\ pc \in {"run_input", "switch", "poll_input"}
               /\ "input" \in started'
               /\ Alive(input_process')
               /\ input_process'.mode = is_rtmp_input_active' ]_vars

\* run() has started the Input process on the primary source and has written
\* SourceState = Primary with it.
C6_Witness ==
    /\ pc = "run_relay" /\ "input" \in started /\ probed /\ rtmp_available
    /\ is_rtmp_input_active /\ Alive(input_process) /\ input_process.mode

\* C7 (as claimed): the step that polls an exited Relay process leaves a
\* running Relay process.
C7_RelayRestartedSameTick ==
    [][ (MonitorPollRelay /\ IsSet(relay_process) /\ Exited(relay_process))
            => Alive(relay_process') ]_vars

\* C7 (amended): the step that polls an exited Relay process leaves a running
\* Relay process when the spawn succeeds; when the spawn fails it leaves no
\* Relay handle and the exception ends the monitor loop.
C7_RelayRestartedUnlessSpawnFails ==
    [][ (MonitorPollRelay /\ IsSet(relay_process) /\ Exited(relay_process))
            => \/ Alive(relay_process') /\ "relay" \in started' /\ pc' = "sleep"
               \/ relay_process' = NoProc /\ raised' /\ pc' = "stop" ]_vars

\* The Relay process was restarted in a tick in which SourceState is Primary
\* and the Input process was restarted too.
C7_Witness ==
    /\ pc = "sleep" /\ started = {"input", "relay"}
    /\ is_rtmp_input_active /\ Alive(relay_process)

\* C8: once stop() has completed no Input or Relay process is alive.
C8_StopTerminatesBoth ==
    stopped => NoLiveProcess

\* stop() has completed with an Input process that had to be killed and a
\* Relay process that had exited by itself before.
C8_Witness ==
    /\ stopped /\ pc = "done"
    /\ input_process.st = "killed" /\ relay_process.st = "crashed"

\* C9: in every reachable state a call of stop() raises nothing and leaves
\* the event set and no live process, and a second call raises nothing and
\* changes nothing.
C9_StopIdempotent ==
    LET first  == stop(World)
        second == stop(first.w)
    IN  /\ ~first.raised /\ ~second.raised
        /\ second.w = first.w
        /\ first.w.shutdown_event
        /\ ~Alive(first.w.input_process) /\ ~Alive(first.w.relay_process)
        /\ stopped => first.w = World

\* stop() has completed on a supervisor whose Relay handle is unset and whose
\* Input process was killed.
C9_Witness ==
    /\ stopped /\ relay_process = NoProc /\ input_process.st = "killed"

\* C10 (as claimed): when stop_stream() has answered success the worker
\* thread has ended and no process is alive.
C10_StopStreamReturnsAfterShutdown ==
    stop_response = "success" => (pc = "done" /\ NoLiveProcess)
\* C12: the probe never raises and answers true only for exit code 0: for
\* every outcome of the ffprobe run check_rtmp_stream returns a value, and
\* every step of run() or of a tick that runs the probe goes on without an
\* exception, with rtmp_available true exactly when ffprobe exited with 0.
C12_ProbeNeverRaises ==
    [][ /\ \A outcome \in ProbeOutcomes(TRUE) :
             /\ ~check_rtmp_stream(outcome).raised
             /\ (check_rtmp_stream(outcome).value <=> (outcome = "rc0"))
        /\ ((RunProbe \/ MonitorProbe) /\ probed')
             => /\ ~raised'
                /\ pc' \in {"run_input", "switch"}
                /\ (rtmp_available' <=> (probe_outcome' = "rc0")) ]_vars

\* The ffprobe run of a tick's probe timed out and the tick goes on with the
\* source taken as unreachable.
C12_Witness ==
    /\ pc = "switch" /\ probed /\ probe_outcome = "timeout"
    /\ ~rtmp_available /\ ~raised

\* The worker threads that are running: the one of the instance the control
\* layer refers to, and those of replaced instances.
RunningSupervisors == superseded + (IF is_alive THEN 1 ELSE 0)

\* C11 (as claimed): at most one supervisor instance is running at any time,
\* for every sequence of start_stream() and stop_stream() requests.
C11_AtMostOneSupervisor == RunningSupervisors <= 1

\* C13: when config.yml lacks a required key, start_stream() answers with the
\* error of the constructor, and the step constructs nothing: no thread is
\* started, no probe is run, no process is spawned, the globals and the
\* instance they refer to are as before.
C13_ConfigErrorReachesCaller ==
    [][ \A file \in ConfigFiles :
          (StartStreamWith(file) /\ ~(stream_thread /\ is_alive)
             /\ (\E key \in required : key \notin DOMAIN file))
            => /\ start_response' = "error"
               /\ UNCHANGED << objectVars, threadVars, config, stream_manager,
                               stream_thread, superseded >> ]_vars

\* start_stream() has answered with the configuration error and there is
\* still no instance and no worker thread.
C13_Witness ==
    /\ start_response = "error" /\ pc = "none"
    /\ ~stream_manager /\ ~stream_thread /\ input_process = NoProc

\* C14 (as claimed): a spawn failure in a step of a tick does not end the
\* monitor loop; the loop goes on with the rest of the tick.
C14_TickFaultKeepsLoop ==
    [][ ((MonitorSwitch \/ MonitorPollInput \/ MonitorPollRelay) /\ raised')
            => pc' \in {"poll_input", "poll_relay", "sleep"} ]_vars

\* C15 (as claimed): once run() has ended, no Input or Relay process that
\* the supervisor spawned is alive.
C15_NoProcessAfterRun == pc = "done" => NoLiveProcess

MaxOf(a, b) == IF a >= b THEN a ELSE b

\* C16 (as claimed): a built Input command has max(1, min(audio_tracks, 3))
\* audio tracks when multi_audio_enabled is true, and 1 when it is false.
C16_AudioTrackCount ==
    input_command # << >>
        => AudioTracks(input_command)
             = IF config.multi_audio_enabled
               THEN MaxOf(1, min(config.audio_tracks, 3))
               ELSE 1

\* C17 (as claimed): /api/status answers not running when the worker thread
\* is not alive, and when it is alive it answers, without raising, running
\* with the SourceState of the supervisor as the active source.
C17_StatusReportsSourceState ==
    [][ GetStreamStatus
          => IF is_alive
             THEN /\ ~status_response'.raised
                  /\ status_response'.running
                  /\ status_response'.source =
                        IF is_rtmp_input_active THEN "rtsp" ELSE "fallback"
             ELSE /\ ~status_response'.raised
                  /\ ~status_response'.running
                  /\ status_response'.source = "none" ]_vars

\* C18: a probe is run only while SourceState = Fallback: the probe of run()
\* and the probe of a tick find is_rtmp_input_active false, a tick that begins
\* with SourceState = Primary runs none, and /api/status runs none while
\* SourceState = Primary.
C18_NoProbeWhilePrimary ==
    [][ /\ ((RunProbe \/ MonitorProbe) /\ probe_outcome' # "none")
             => ~is_rtmp_input_active
        /\ (MonitorProbe /\ is_rtmp_input_active)
             => (~probed' /\ probe_outcome' = "none")
        /\ (GetStreamStatus /\ is_rtmp_input_active)
             => ~status_response'.probed ]_vars

\* A tick that began with SourceState = Primary has passed its probe step
\* without a probe, and /api/status was asked in that tick.
C18_Witness ==
    /\ pc = "switch" /\ is_rtmp_input_active /\ ~probed
    /\ probe_outcome = "none" /\ status_response # NoStatus

\* C19: run() probes once before it starts a process; the Input process is
\* started in the mode the probe gave and SourceState is written with it;
\* the Relay process is started only when the Input process has been started.
C19_StartupOrder ==
    /\ pc = "run_probe"
         => (~probed /\ input_process = NoProc /\ relay_process = NoProc
             /\ ~is_rtmp_input_active)
    /\ pc = "run_input"
         => (probed /\ input_process = NoProc /\ relay_process = NoProc
             /\ ~is_rtmp_input_active
             /\ (rtmp_available <=> (probe_outcome = "rc0")))
    /\ pc = "run_relay"
         => (probed /\ IsSet(input_process) /\ relay_process = NoProc
             /\ "input" \in started
             /\ (input_process.mode <=> (probe_outcome = "rc0"))
             /\ (is_rtmp_input_active <=> (probe_outcome = "rc0")))
    /\ (pc = "loop" /\ "relay" \in started)
         => (IsSet(input_process) /\ IsSet(relay_process)
             /\ "input" \in started
             /\ input_process.mode = is_rtmp_input_active)

\* The probe of run() failed, the Input process was started in fallback mode
\* and the Relay process after it.
C19_Witness ==
    /\ pc = "loop" /\ started = {"input", "relay"} /\ probe_outcome = "nonzero"
    /\ ~is_rtmp_input_active /\ ~input_process.mode
    /\ Alive(input_process) /\ Alive(relay_process)

\* C20: an exception raised in a step of a tick takes run() to its finally
\* clause; stop() then runs to its end on both processes, and only with that
\* step does the thread end, with the exception still raised.
C20_ExceptionRunsStopThenReraises ==
    [][ /\ ((MonitorProbe \/ MonitorSwitch \/ MonitorPollInput \/ MonitorPollRelay)
               /\ raised')
             => (pc' = "stop" /\ ~stopped')
        /\ (RunStop /\ raised)
             => /\ pc' = "done" /\ stopped' /\ raised'
                /\ shutdown_event'
                /\ ~Alive(input_process') /\ ~Alive(relay_process')
        /\ (pc \in {"probe", "switch", "poll_input", "poll_relay", "sleep", "loop"}
               /\ pc' = "done")
             => FALSE ]_vars

\* A spawn failed in a tick, stop() has run and has killed an Input process
\* that did not end on terminate(), and the thread has ended with the
\* exception.
C20_Witness ==
    /\ pc = "done" /\ raised /\ stopped /\ shutdown_event
    /\ input_process.st = "killed" /\ ~Alive(relay_process)

\* C21 (as claimed): a cancellation flag that is set while run() is executing
\* leads to the end of run() with both pipelines terminated: when the flag is
\* set and the request that set it has been answered, the step that ends
\* run() leaves no process alive.
C21_CancellationTerminatesPipelines ==
    [][ (shutdown_event /\ is_alive /\ app_pc = "idle" /\ pc' = "done")
            => NoLiveProcess' ]_vars

\* The worker is inside the while loop of monitor_stream().
InMonitorLoop ==
    pc \in {"loop", "probe", "switch", "poll_input", "poll_relay", "sleep"}

\* C22 (as claimed): while the monitor loop is running, the process handles
\* and SourceState of the supervisor are touched by the steps of run() only
\* (and by the processes' own exits): no step of a request of the control
\* layer and no signal handler signals or replaces a handle.
C22_OnlyWorkerTouchesHandles ==
    [][ (/\ InMonitorLoop
         /\ ~StartStream
         /\ \/ input_process' # input_process
            \/ relay_process' # relay_process
            \/ is_rtmp_input_active' # is_rtmp_input_active)
            => (Worker \/ InputExits \/ RelayExits) ]_vars

\* The poll of a tick finds the Input process exited, and the mode the tick
\* has for the restart is the one SourceState names.
SameModeCrash ==
    /\ MonitorPollInput
    /\ IsSet(input_process) /\ Exited(input_process)
    /\ rtmp_available = is_rtmp_input_active

\* C23 (as claimed): the step that polls an exited Input process with the
\* restart mode equal to SourceState (in particular in Fallback after a
\* failed probe) leaves a running Input process of that mode, started in
\* this tick, and SourceState as it was.
C23_SameModeRestart ==
    [][ SameModeCrash
            => /\ is_rtmp_input_active' = is_rtmp_input_active
               /\ Alive(input_process')
               /\ input_process'.mode = is_rtmp_input_active
               /\ "input" \in started' ]_vars

\* C23 (amended): that step leaves SourceState as it was; when the spawn
\* succeeds a new Input process of that mode is running and the tick goes
\* on, and when the spawn fails the handle is as before and the exception
\* ends the monitor loop.
C23_SameModeRestartUnlessSpawnFails ==
    [][ SameModeCrash
            => /\ is_rtmp_input_active' = is_rtmp_input_active
               /\ \/ /\ Alive(input_process')
                     /\ input_process'.mode = is_rtmp_input_active
                     /\ "input" \in started'
                     /\ pc' = "poll_relay"
                  \/ /\ input_process' = input_process
                     /\ raised' /\ pc' = "stop" ]_vars

\* In a tick that began in Fallback and whose probe failed, the Input
\* process was found exited and a new one runs in fallback mode.
C23_Witness ==
    /\ pc = "poll_relay" /\ probed /\ ~rtmp_available
    /\ probe_outcome \in {"nonzero", "timeout", "oserror"}
    /\ ~is_rtmp_input_active /\ "input" \in started
    /\ Alive(input_process) /\ ~input_process.mode

\* C24: a start or restart of the Input process leaves the Relay handle and
\* the Relay process as they were, and a start or restart of the Relay
\* process leaves the Input handle, the Input process and SourceState as they
\* were, whether the spawn succeeds or fails.
C24_RestartLeavesOtherPipeline ==
    [][ /\ (RunStartInput \/ MonitorSwitch \/ MonitorPollInput)
             => UNCHANGED << relay_process, leaked_relay >>
        /\ (RunStartRelay \/ MonitorPollRelay)
             => UNCHANGED << input_process, leaked_input, is_rtmp_input_active >>
      ]_vars

\* Only the Relay process was restarted in this tick: the Input process on
\* the primary source runs on and SourceState is Primary.
C24_Witness ==
    /\ pc = "sleep" /\ started = {"relay"}
    /\ is_rtmp_input_active /\ Alive(input_process) /\ input_process.mode
    /\ Alive(relay_process)

====
